---- MODULE Spec2Model ----
(***************************************************************************)
(* A model of the REST backend of src/unnamed/part_000 (the routes of the  *)
(* articles, comments, products and product comments) and of the product   *)
(* listing of src/app.js.  Every route handler is one action, except       *)
(* GET /products of part_000, which awaits two persistence calls and is    *)
(* therefore two actions, so that other requests run between them.         *)
(*                                                                         *)
(* JavaScript strings that the code converts (query and path parameters)   *)
(* are sequences of one-character strings; a JavaScript number is a record *)
(* [nan, val].  createdAt is a logical clock that advances on every create,*)
(* so no two records of the model share a createdAt.                       *)
(***************************************************************************)
EXTENDS Integers, Sequences, FiniteSets, TLC

\* ------------------------------------------------------------------ bounds

\* Records created per resource over a run of Spec / SpecProduct.
MaxCreates == 2

\* Records of the pre-populated store of SpecPage.
MaxRecords == 11

\* ------------------------------------------------- JavaScript conversions

Digits == <<"0", "1", "2", "3", "4", "5", "6", "7", "8", "9">>

IsDigit(c) == \E i \in 1..10 : Digits[i] = c

DigitVal(c) == (CHOOSE i \in 1..10 : Digits[i] = c) - 1

\* A query or path value: absent (undefined) or a string.
Undefined == [present |-> FALSE, str |-> <<>>]

Str(s) == [present |-> TRUE, str |-> s]

NaN == [nan |-> TRUE, val |-> 0]

Num(n) == [nan |-> FALSE, val |-> n]

RECURSIVE DecimalValue(_)
DecimalValue(s) ==
    IF s = <<>> THEN 0
    ELSE 10 * DecimalValue(SubSeq(s, 1, Len(s) - 1)) + DigitVal(s[Len(s)])

\* Number(v): undefined is NaN, "" is 0, a run of decimal digits is its value,
\* any other string (of the alphabet drawn here) is NaN.
Number(v) ==
    IF ~v.present THEN NaN
    ELSE IF \A i \in 1..Len(v.str) : IsDigit(v.str[i]) THEN Num(DecimalValue(v.str))
    ELSE NaN

\* a || d on numbers: NaN and 0 are falsy.
OrDefault(n, d) == IF n.nan \/ n.val = 0 THEN d ELSE n.val

RECURSIVE ToStr(_)
\* String(n) for an integer n >= 0.
ToStr(n) ==
    IF n < 10 THEN <<Digits[n + 1]>>
    ELSE ToStr(n \div 10) \o <<Digits[(n % 10) + 1]>>

RECURSIVE DigitPrefix(_)
DigitPrefix(s) ==
    IF s = <<>> \/ ~IsDigit(s[1]) THEN <<>>
    ELSE <<s[1]>> \o DigitPrefix(Tail(s))

\* parseInt(s) on a string: the value of its longest prefix of digits, NaN
\* when that prefix is empty.
parseIntStr(s) ==
    IF DigitPrefix(s) = <<>> THEN NaN ELSE Num(DecimalValue(DigitPrefix(s)))

\* parseInt(n) on a number: parseInt(String(n)).
parseInt(n) == parseIntStr(ToStr(n))

\* String.prototype.includes, which is what { contains: k } asks of the store.
Contains(s, k) ==
    \E i \in 1..(Len(s) + 1) :
        /\ i + Len(k) - 1 <= Len(s)
        /\ SubSeq(s, i, i + Len(k) - 1) = k

\* ------------------------------------------------------------------ state

VARIABLES
    articles,         \* the Article table: records [id, title, content, createdAt]
    comments,         \* the Comment table: [id, content, createdAt, articleId]
    products,         \* the Product table
    productComments,  \* the ProductComment table
    artSeq,           \* articles created so far (the id generator's position)
    comSeq,           \* comments created so far
    prodSeq,          \* products created so far (the autoincrement counter)
    now,              \* the clock createdAt is read from
    ownerRequired,    \* the schema: is Comment.articleId a required column
    pending,          \* the GET /products request between its two awaits
    gone,             \* history: the ids of the articles deleted so far
    last              \* the request the latest step completed, with its responses

stores == <<articles, comments, products, productComments>>

vars == <<articles, comments, products, productComments, artSeq, comSeq,
          prodSeq, now, ownerRequired, pending, gone, last>>

\* ------------------------------------------------------- requests, responses

DefaultPage == 1

DefaultPageSize == 10

DefaultLimit == 5

NoQuery ==
    [page |-> Undefined, pageSize |-> Undefined, order |-> Undefined,
     keyword |-> Undefined, cursor |-> Undefined, limit |-> Undefined,
     sort |-> Undefined, offset |-> Undefined, search |-> Undefined]

NoBody == <<>>

Request(route, id, body, query) ==
    [route |-> route, id |-> id, body |-> body, query |-> query]

\* res.status(s).send(b)
Send(status, body) == [status |-> status, body |-> body]

\* res.sendStatus(s): the handler supplies no body.
sendStatus(status) == [status |-> status, body |-> [kind |-> "none"]]

MessageBody(m) == [kind |-> "message", message |-> m]

RecordBody(r) == [kind |-> "record", record |-> r]

ListBody(items) == [kind |-> "list", items |-> items]

PageBody(totalCount, items) ==
    [kind |-> "page", totalCount |-> totalCount, products |-> items]

\* What a thrown value looks like to the wrapper: e.name, e.code, e.message.
NoFailure == [name |-> "none", code |-> "", message |-> ""]

StructError == [name |-> "StructError", code |-> "", message |-> "struct"]

ValidationError ==
    [name |-> "PrismaClientValidationError", code |-> "", message |-> "invalid"]

NotFoundError ==
    [name |-> "PrismaClientKnownRequestError", code |-> "P2025",
     message |-> "not found"]

\* The store cannot be reached: a failure of no kind the wrapper knows.
StoreError ==
    [name |-> "PrismaClientInitializationError", code |-> "",
     message |-> "unreachable"]

ReferenceError ==
    [name |-> "ReferenceError", code |-> "", message |-> "not defined"]

\* What a handler leaves behind: the responses it sent, in order, what it threw,
\* the persistence calls it made, in order, and the tables after it.
Outcome(res, failure, calls, st) ==
    [res |-> res, failure |-> failure, calls |-> calls, stores |-> st]

Throw(failure, calls) == Outcome(<<>>, failure, calls, stores)

Respond(response, calls, st) == Outcome(<<response>>, NoFailure, calls, st)

\* asyncHandler without its branch for code P2025.
asyncHandlerDropsNotFound(o) ==
    IF o.failure = NoFailure THEN o
    ELSE IF o.failure.name \in {"StructError", "PrismaClientValidationError"}
    THEN [o EXCEPT !.res = Append(@, Send(400, MessageBody(o.failure.message)))]
    ELSE [o EXCEPT !.res = Append(@, Send(500, MessageBody(o.failure.message)))]

\* asyncHandler: the handler's outcome, with the error response appended when
\* the handler threw.
asyncHandler(o) ==
    IF o.failure = NoFailure THEN o
    ELSE IF o.failure.name \in {"StructError", "PrismaClientValidationError"}
    THEN [o EXCEPT !.res = Append(@, Send(400, MessageBody(o.failure.message)))]
    ELSE IF o.failure.name = "PrismaClientKnownRequestError"
            /\ o.failure.code = "P2025"
    THEN [o EXCEPT !.res = Append(@, sendStatus(404))]
    ELSE [o EXCEPT !.res = Append(@, Send(500, MessageBody(o.failure.message)))]

\* The step's record of the request it served; readFrom is the Product table
\* as it was when GET /products read its window.
ServedFrom(req, o, readFrom) ==
    [req |-> req, res |-> o.res, failure |-> o.failure, calls |-> o.calls,
     readFrom |-> readFrom]

Served(req, o) == ServedFrom(req, o, {})

NoneServed ==
    Served(Request("", Undefined, NoBody, NoQuery),
           Outcome(<<>>, NoFailure, <<>>, <<>>))

\* --------------------------------------------------------------- the schemas

\* assert(body, CreateArticle): title and content, nothing else.
CreateArticle(body) == DOMAIN body = {"title", "content"}

\* assert(body, PatchArticle): any of title and content.
PatchArticle(body) == DOMAIN body \subseteq {"title", "content"}

\* assert(body, CreateComment): content, nothing else.
CreateComment(body) == DOMAIN body = {"content"}

\* The columns a Product row must be given; favoriteCount defaults to 0.
ProductRequired == {"name", "description", "price", "tags"}

ProductColumns == ProductRequired \cup {"favoriteCount"}

\* ------------------------------------------------------- the persistence layer

Ids(table) == {r.id : r \in table}

Row(table, id) == CHOOSE r \in table : r.id = id

\* update's data over a row: the named columns replaced, the others kept.
Merge(row, data) ==
    [f \in DOMAIN row |-> IF f \in DOMAIN data THEN data[f] ELSE row[f]]

\* where: { OR: [{f1: {contains: k}}, {f2: {contains: k}}] }
Matching(table, fields, k) ==
    {r \in table : \E f \in fields : Contains(r[f], k)}

Before(a, b, key, dir) ==
    IF dir = "desc" THEN a[key] >= b[key] ELSE a[key] <= b[key]

RECURSIVE Orderings(_, _, _)
\* orderBy: { key: dir }: every sequence of the rows the store may return,
\* one when no two rows share the key.
Orderings(rows, key, dir) ==
    IF rows = {} THEN {<<>>}
    ELSE UNION {
        {<<m>> \o t : t \in Orderings(rows \ {m}, key, dir)} :
        m \in {r \in rows : \A q \in rows : Before(r, q, key, dir)}}

\* skip and take over an ordered result.
Window(seq, skip, take) ==
    SubSeq(seq, skip + 1, IF skip + take < Len(seq) THEN skip + take ELSE Len(seq))

\* select: the named columns of a row.
Select(row, columns) == [f \in columns |-> row[f]]

SelectAll(seq, columns) == [i \in 1..Len(seq) |-> Select(seq[i], columns)]

\* cursor: { id }: the position of the row with that id, 0 when there is none.
CursorAt(seq, id) ==
    IF \E i \in 1..Len(seq) : seq[i].id = id
    THEN CHOOSE i \in 1..Len(seq) : seq[i].id = id
    ELSE 0

\* findMany with cursor, skip and take: from the cursor's row on; nothing when
\* no row has the cursor's id.
FromCursor(seq, cursor, skip, take) ==
    IF ~cursor.present THEN Window(seq, skip, take)
    ELSE IF CursorAt(seq, cursor.str) = 0 THEN <<>>
    ELSE Window(seq, CursorAt(seq, cursor.str) - 1 + skip, take)

\* ------------------------------------------------------------------ inputs

Texts == {<<"a">>, <<"a", "b">>}

\* Request bodies: every choice of fields among `fields`, with values in Texts.
Bodies(fields) == UNION {[S -> Texts] : S \in SUBSET fields}

\* Path ids: the ids of the records a run creates, one more, and a non-number.
PathIds == {ToStr(n) : n \in 1..(MaxCreates + 1)} \cup {<<"x">>}

\* req.params of a route whose path names its parameter :id.
Params(id) == [id |-> id]

\* const { name } = req.params
Param(params, name) ==
    IF name \in DOMAIN params THEN Str(params[name]) ELSE Undefined

\* ------------------------------------------------------ handlers of part_000

\* res.send(b)
send(body) == Send(200, body)

ArticleColumns == {"id", "title", "content", "createdAt"}

CommentListColumns == {"id", "content", "createdAt"}

\* The one ordering of rows no two of which share the key.
Sorted(rows, key, dir) == CHOOSE s \in Orderings(rows, key, dir) : TRUE

\* POST /article
postArticle(body, down) ==
    IF ~CreateArticle(body) THEN Throw(StructError, <<>>)
    ELSE IF down THEN Throw(StoreError, <<"article.create">>)
    ELSE LET article == [id |-> ToStr(artSeq + 1), title |-> body.title,
                         content |-> body.content, createdAt |-> now + 1]
         IN  Respond(Send(201, RecordBody(article)), <<"article.create">>,
                     <<articles \cup {article}, comments, products,
                       productComments>>)

\* GET /article/:id with findUnique in place of findUniqueOrThrow.
getArticleNeverThrows(id, down) ==
    IF down THEN Throw(StoreError, <<"article.findUniqueOrThrow">>)
    ELSE IF id \notin Ids(articles)
    THEN Respond(send(RecordBody(<<>>)), <<"article.findUniqueOrThrow">>, stores)
    ELSE Respond(send(RecordBody(Select(Row(articles, id), ArticleColumns))),
                 <<"article.findUniqueOrThrow">>, stores)

\* GET /article/:id
getArticle(id, down) ==
    IF down THEN Throw(StoreError, <<"article.findUniqueOrThrow">>)
    ELSE IF id \notin Ids(articles)
    THEN Throw(NotFoundError, <<"article.findUniqueOrThrow">>)
    ELSE Respond(send(RecordBody(Select(Row(articles, id), ArticleColumns))),
                 <<"article.findUniqueOrThrow">>, stores)

\* PATCH /article/:id
patchArticle(id, body, down) ==
    IF ~PatchArticle(body) THEN Throw(StructError, <<>>)
    ELSE IF down THEN Throw(StoreError, <<"article.update">>)
    ELSE IF id \notin Ids(articles)
    THEN Throw(NotFoundError, <<"article.update">>)
    ELSE LET article == Merge(Row(articles, id), body)
         IN  Respond(send(RecordBody(article)), <<"article.update">>,
                     <<(articles \ {Row(articles, id)}) \cup {article},
                       comments, products, productComments>>)

\* DELETE /article/:id
deleteArticle(id, down) ==
    IF down THEN Throw(StoreError, <<"article.delete">>)
    ELSE IF id \notin Ids(articles)
    THEN Throw(NotFoundError, <<"article.delete">>)
    ELSE Respond(sendStatus(204), <<"article.delete">>,
                 <<articles \ {Row(articles, id)}, comments, products,
                   productComments>>)

\* const { order = "recent" } = req.query
OrderOf(query) == IF query.order.present THEN query.order.str ELSE "recent"

\* const { keyword = "" } = req.query
KeywordOf(query) == IF query.keyword.present THEN query.keyword.str ELSE <<>>

pageNum(query) == OrDefault(Number(query.page), DefaultPage)

pageSizeNum(query) == OrDefault(Number(query.pageSize), DefaultPageSize)

\* skipInt without the - 1.
skipIntFromPage(query) == pageNum(query) * pageSizeNum(query)

\* const skipInt = (pageNum - 1) * pageSizeNum
skipInt(query) == (pageNum(query) - 1) * pageSizeNum(query)

\* GET /article
listArticles(query, down) ==
    LET orderBy == IF OrderOf(query) = "oldest" THEN "asc" ELSE "desc"
        keyword == KeywordOf(query)
        found   == IF keyword = <<>> THEN articles
                   ELSE Matching(articles, {"content", "title"}, keyword)
        skip    == parseInt(skipInt(query))
        take    == parseInt(pageSizeNum(query))
    IN  IF skip.nan \/ take.nan
        THEN Throw(ValidationError, <<"article.findMany">>)
        ELSE IF down THEN Throw(StoreError, <<"article.findMany">>)
        ELSE Respond(send(ListBody(Window(Sorted(found, "createdAt", orderBy),
                                          skip.val, take.val))),
                     <<"article.findMany">>, stores)

\* The row prisma.comment.create stores for data { ...body, articleId }.
NewComment(body, articleId) ==
    [id |-> ToStr(comSeq + 1), content |-> body.content,
     createdAt |-> now + 1, articleId |-> articleId]

ForeignKeyError ==
    [name |-> "PrismaClientKnownRequestError", code |-> "P2003",
     message |-> "foreign key"]

\* prisma.comment.create({ data: { ...body, articleId } }): the arguments are
\* checked against the schema before the store is reached.
createComment(body, articleId, down) ==
    IF ~articleId.present /\ ownerRequired
    THEN Throw(ValidationError, <<"comment.create">>)
    ELSE IF down THEN Throw(StoreError, <<"comment.create">>)
    ELSE IF articleId.present /\ articleId.str \notin Ids(articles)
    THEN Throw(ForeignKeyError, <<"comment.create">>)
    ELSE Respond(Send(201, RecordBody(NewComment(body, articleId))),
                 <<"comment.create">>,
                 <<articles, comments \cup {NewComment(body, articleId)},
                   products, productComments>>)

\* POST /article/:id/comment
postArticleComment(params, body, down) ==
    IF ~CreateComment(body) THEN Throw(StructError, <<>>)
    ELSE createComment(body, Param(params, "articleId"), down)

\* PATCH /comment/:id
patchComment(id, body, down) ==
    IF ~CreateComment(body) THEN Throw(StructError, <<>>)
    ELSE IF down THEN Throw(StoreError, <<"comment.update">>)
    ELSE IF id \notin Ids(comments)
    THEN Throw(NotFoundError, <<"comment.update">>)
    ELSE LET comment == Merge(Row(comments, id), body)
         IN  Respond(send(RecordBody(comment)), <<"comment.update">>,
                     <<articles, (comments \ {Row(comments, id)}) \cup {comment},
                       products, productComments>>)

\* DELETE /comment/:id
deleteComment(id, down) ==
    IF down THEN Throw(StoreError, <<"comment.delete">>)
    ELSE IF id \notin Ids(comments)
    THEN Throw(NotFoundError, <<"comment.delete">>)
    ELSE Respond(sendStatus(204), <<"comment.delete">>,
                 <<articles, comments \ {Row(comments, id)}, products,
                   productComments>>)

\* const { limit = 5 } = req.query; parseInt(limit)
parsedLimit(query) ==
    IF query.limit.present THEN parseIntStr(query.limit.str)
    ELSE parseInt(DefaultLimit)

\* cursor ? 1 : 0 -- the empty string is falsy
Truthy(v) == v.present /\ v.str # <<>>

\* The findMany of both comment listings over `table`.
findManyByCursor(table, query) ==
    SelectAll(FromCursor(Sorted(table, "createdAt", "desc"),
                         IF Truthy(query.cursor) THEN query.cursor ELSE Undefined,
                         IF Truthy(query.cursor) THEN 1 ELSE 0,
                         parsedLimit(query).val),
              CommentListColumns)

\* GET /comment
listComments(query, down) ==
    IF parsedLimit(query).nan THEN Throw(ValidationError, <<"comment.findMany">>)
    ELSE IF down THEN Throw(StoreError, <<"comment.findMany">>)
    ELSE Respond(send(ListBody(findManyByCursor(comments, query))),
                 <<"comment.findMany">>, stores)

\* GET /productcomment: the rows are read, then res.send(productComment) names a
\* variable the handler never declared.
listProductComments(query, down) ==
    IF parsedLimit(query).nan
    THEN Throw(ValidationError, <<"productComment.findMany">>)
    ELSE IF down THEN Throw(StoreError, <<"productComment.findMany">>)
    ELSE Throw(ReferenceError, <<"productComment.findMany">>)

\* A JavaScript value that is a number, not a string.
IsNumber(v) == "val" \in DOMAIN v

\* An argument object that carries a where filter.
HasWhere(args) == "where" \in DOMAIN args

\* prisma.productComment.create({ data: { ...body, productId } }): productId is
\* a numeric column, as Product.id is.
createProductComment(body, productId, down) ==
    IF ~IsNumber(productId) \/ DOMAIN body # {"content"}
    THEN Throw(ValidationError, <<"productComment.create">>)
    ELSE IF down THEN Throw(StoreError, <<"productComment.create">>)
    ELSE IF productId.nan \/ productId.val \notin Ids(products)
    THEN Throw(ForeignKeyError, <<"productComment.create">>)
    ELSE LET comment == [id |-> Cardinality(productComments) + 1,
                         content |-> body.content, createdAt |-> now + 1,
                         productId |-> productId.val]
         IN  Respond(Send(201, RecordBody(comment)), <<"productComment.create">>,
                     <<articles, comments, products,
                       productComments \cup {comment}>>)

\* POST /product/:id/comment: the path's id, a string, is the productId.
postProductComment(params, body, down) ==
    createProductComment(body, Param(params, "id"), down)

ProductListColumns ==
    {"id", "name", "description", "price", "tags", "favoriteCount", "createdAt"}

\* The switch on order of GET /products.
productOrderBy(query) ==
    IF OrderOf(query) = "fovorite" THEN "favoriteCount" ELSE "createdAt"

\* searchQuery of GET /products
productsMatching(table, query) ==
    Matching(table, {"name", "description"}, KeywordOf(query))

\* prisma.product.create({ data: body })
postProduct(body, down) ==
    IF ~(ProductRequired \subseteq DOMAIN body /\ DOMAIN body \subseteq ProductColumns)
    THEN Throw(ValidationError, <<"product.create">>)
    ELSE IF down THEN Throw(StoreError, <<"product.create">>)
    ELSE LET product ==
                 [id |-> prodSeq + 1, name |-> body.name,
                  description |-> body.description, price |-> body.price,
                  tags |-> body.tags,
                  favoriteCount |-> IF "favoriteCount" \in DOMAIN body
                                    THEN body.favoriteCount ELSE 0,
                  createdAt |-> now + 1]
         IN  Respond(Send(201, RecordBody(product)), <<"product.create">>,
                     <<articles, comments, products \cup {product},
                       productComments>>)

\* prisma.product.findUnique(args): [failure, row], row <<>> for null.
findUniqueProduct(args, down) ==
    IF ~HasWhere(args) \/ args.where.id.nan
    THEN [failure |-> ValidationError, row |-> <<>>]
    ELSE IF down THEN [failure |-> StoreError, row |-> <<>>]
    ELSE IF args.where.id.val \in Ids(products)
    THEN [failure |-> NoFailure, row |-> <<Row(products, args.where.id.val)>>]
    ELSE [failure |-> NoFailure, row |-> <<>>]

\* GET /products/:id
getProduct(id, down) ==
    LET found == findUniqueProduct([where |-> [id |-> Number(Str(id))]], down)
    IN  IF found.failure # NoFailure
        THEN Throw(found.failure, <<"product.findUnique">>)
        ELSE IF found.row # <<>>
        THEN Respond(send(RecordBody(found.row[1])), <<"product.findUnique">>,
                     stores)
        ELSE Respond(Send(404, MessageBody("Cannot find given id.")),
                     <<"product.findUnique">>, stores)

TypeError == [name |-> "TypeError", code |-> "", message |-> "not a function"]

\* PATCH /products/:id: findUnique is handed the bare id; a row it returned
\* would have no save method.
patchProduct(id, body, down) ==
    LET found == findUniqueProduct(Str(id), down)
    IN  IF found.failure # NoFailure
        THEN Throw(found.failure, <<"product.findUnique">>)
        ELSE IF found.row # <<>>
        THEN Throw(TypeError, <<"product.findUnique">>)
        ELSE Respond(Send(404, MessageBody("Cannot find given id. ")),
                     <<"product.findUnique">>, stores)

\* prisma.product.delete(args): the row deleted, or a failure.
deleteProductRow(args, down) ==
    IF ~HasWhere(args) \/ args.where.id.nan
    THEN Throw(ValidationError, <<"product.delete">>)
    ELSE IF down THEN Throw(StoreError, <<"product.delete">>)
    ELSE IF args.where.id.val \notin Ids(products)
    THEN Throw(NotFoundError, <<"product.delete">>)
    ELSE Respond(sendStatus(204), <<"product.delete">>,
                 <<articles, comments,
                   products \ {Row(products, args.where.id.val)},
                   productComments>>)

\* DELETE /products/:id: delete is handed the bare number.
deleteProduct(id, down) == deleteProductRow(Number(Str(id)), down)

\* The findMany of GET /products over the rows as the store orders them.
productsWindow(ordered, query) ==
    SelectAll(Window(ordered, parseInt(skipInt(query)).val,
                     parseInt(pageSizeNum(query)).val),
              ProductListColumns)

\* GET /products up to its first await: what the handler holds afterwards.
findManyProducts(query, ordered, down) ==
    IF parseInt(skipInt(query)).nan \/ parseInt(pageSizeNum(query)).nan
    THEN Throw(ValidationError, <<"product.findMany">>)
    ELSE IF down THEN Throw(StoreError, <<"product.findMany">>)
    ELSE Outcome(<<>>, NoFailure, <<"product.findMany">>, stores)

\* The count taken of the table the window was read from.
countFromWindow(held, down) ==
    IF down THEN Throw(StoreError, Append(held.calls, "product.count"))
    ELSE Respond(send(PageBody(Cardinality(productsMatching(held.readFrom,
                                                            held.query)),
                               held.products)),
                 Append(held.calls, "product.count"), stores)

\* GET /products from its first await on: the count, then the response.
countProducts(held, down) ==
    IF down THEN Throw(StoreError, Append(held.calls, "product.count"))
    ELSE Respond(send(PageBody(Cardinality(productsMatching(products,
                                                            held.query)),
                               held.products)),
                 Append(held.calls, "product.count"), stores)

\* ------------------------------------------------------- the handler of app.js

AppListColumns == {"id", "name", "price", "favoriteCount"}

\* const { sort = "recent" } = req.query
SortOf(query) == IF query.sort.present THEN query.sort.str ELSE "recent"

\* const { offset = 0 } = req.query; Number(offset)
OffsetOf(query) ==
    IF query.offset.present THEN Number(query.offset) ELSE Num(0)

\* app.get("/products") of app.js, the first registration, which is the one
\* Express dispatches to: not wrapped; its catch logs and sends nothing.
\* (app.js calls cors() without importing it; the routes are modelled as
\* registered, as they are once the import is there.)
appListProducts(query, down) ==
    LET dir   == IF SortOf(query) = "recent" THEN "desc" ELSE "asc"
        found == Matching(products, {"name", "description"},
                          IF query.search.present THEN query.search.str ELSE <<>>)
        take  == Number(query.limit)
        skip  == OffsetOf(query)
    IN  IF take.nan \/ skip.nan
        THEN Throw(ValidationError, <<"product.findMany">>)
        ELSE IF down THEN Throw(StoreError, <<"product.findMany">>)
        ELSE Respond(send(ListBody(SelectAll(
                         Window(Sorted(found, "createdAt", dir), skip.val,
                                take.val), AppListColumns))),
                     <<"product.findMany">>, stores)

\* ----------------------------------------------------------------- actions

CommentBodies == Bodies({"content"})

\* Bodies of product requests: the required columns, with or without a
\* favoriteCount, and one that lacks the name.
ProductBodies ==
    {[name |-> n, description |-> <<"d">>, price |-> 1, tags |-> <<>>] :
        n \in Texts}
    \cup {[name |-> <<"a">>, description |-> <<"d">>, price |-> 1, tags |-> <<>>,
           favoriteCount |-> 1]}
    \cup {[description |-> <<"d">>, price |-> 1, tags |-> <<>>]}

ProductPatches == {[price |-> 2]}

\* Queries that vary the page window.
PageQueries ==
    {[NoQuery EXCEPT !.page = p, !.pageSize = z, !.order = o, !.keyword = k] :
        p \in {Undefined, Str(<<"x">>), Str(<<"2">>), Str(<<"3">>)},
        z \in {Undefined, Str(<<"x">>), Str(<<"2">>), Str(<<"5">>)},
        o \in {Undefined, Str("oldest")},
        k \in {Undefined, Str(<<"b">>)}}

\* Queries of the product listing that vary the page window.
ProductPageQueries ==
    {[NoQuery EXCEPT !.page = p, !.pageSize = z] :
        p \in {Undefined, Str(<<"2">>)},
        z \in {Undefined, Str(<<"x">>), Str(<<"5">>)}}

\* Queries that vary the order keyword.
OrderQueries ==
    {[NoQuery EXCEPT !.order = o, !.keyword = k] :
        o \in {Undefined, Str("favorite"), Str("fovorite"), Str("latest")},
        k \in {Undefined, Str(<<"b">>)}}

\* Queries of the cursor listings; no limit is drawn that parseInt maps to NaN.
CursorQueries ==
    {[NoQuery EXCEPT !.cursor = c, !.limit = l] :
        c \in {Undefined} \cup {Str(id) : id \in PathIds},
        l \in {Undefined, Str(<<"0">>), Str(<<"1">>), Str(<<"2">>),
               Str(<<"1", "x">>)}}

\* Queries of the listing of app.js; no limit is drawn that Number maps to NaN.
AppQueries ==
    {[NoQuery EXCEPT !.sort = o, !.limit = l, !.offset = f] :
        o \in {Undefined, Str("favorite"), Str("latest")},
        l \in {Str(<<"5">>)},
        f \in {Undefined}}

NoPending == <<>>

\* A handler's outcome becomes the next state: the tables it left, the id
\* generators and the clock advanced by the rows it created.
Commit(served, o) ==
    /\ articles' = o.stores[1]
    /\ comments' = o.stores[2]
    /\ products' = o.stores[3]
    /\ productComments' = o.stores[4]
    /\ artSeq' = artSeq + Cardinality(Ids(articles') \ Ids(articles))
    /\ comSeq' = comSeq + Cardinality(Ids(comments') \ Ids(comments))
    /\ prodSeq' = prodSeq + Cardinality(Ids(products') \ Ids(products))
    /\ now' = now + (artSeq' - artSeq) + (comSeq' - comSeq) + (prodSeq' - prodSeq)
           + Cardinality(productComments' \ productComments)
    /\ gone' = gone \cup (Ids(articles) \ Ids(articles'))
    /\ last' = served
    /\ UNCHANGED ownerRequired

\* A request served by one step.
Serve(req, o) == Commit(Served(req, o), o) /\ UNCHANGED pending

PostArticle ==
    \E body \in Bodies({"title", "content"}), down \in BOOLEAN :
        /\ artSeq < MaxCreates
        /\ Serve(Request("POST /article", Undefined, body, NoQuery),
                 asyncHandler(postArticle(body, down)))

GetArticle ==
    \E id \in PathIds, down \in BOOLEAN :
        Serve(Request("GET /article/:id", Str(id), NoBody, NoQuery),
              asyncHandler(getArticle(id, down)))

PatchArticleById ==
    \E id \in PathIds, body \in Bodies({"title", "content"}), down \in BOOLEAN :
        Serve(Request("PATCH /article/:id", Str(id), body, NoQuery),
              asyncHandler(patchArticle(id, body, down)))

DeleteArticle ==
    \E id \in PathIds, down \in BOOLEAN :
        Serve(Request("DELETE /article/:id", Str(id), NoBody, NoQuery),
              asyncHandler(deleteArticle(id, down)))

ListArticles(queries) ==
    \E query \in queries, down \in BOOLEAN :
        Serve(Request("GET /article", Undefined, NoBody, query),
              asyncHandler(listArticles(query, down)))

PostArticleComment ==
    \E id \in PathIds, body \in CommentBodies, down \in BOOLEAN :
        /\ comSeq < MaxCreates
        /\ Serve(Request("POST /article/:id/comment", Str(id), body, NoQuery),
                 asyncHandler(postArticleComment(Params(id), body, down)))

PatchComment ==
    \E id \in PathIds, body \in CommentBodies, down \in BOOLEAN :
        Serve(Request("PATCH /comment/:id", Str(id), body, NoQuery),
              asyncHandler(patchComment(id, body, down)))

DeleteComment ==
    \E id \in PathIds, down \in BOOLEAN :
        Serve(Request("DELETE /comment/:id", Str(id), NoBody, NoQuery),
              asyncHandler(deleteComment(id, down)))

ListComments ==
    \E query \in CursorQueries, down \in BOOLEAN :
        Serve(Request("GET /comment", Undefined, NoBody, query),
              asyncHandler(listComments(query, down)))

ListProductComments ==
    \E query \in CursorQueries, down \in BOOLEAN :
        Serve(Request("GET /productcomment", Undefined, NoBody, query),
              asyncHandler(listProductComments(query, down)))

PostProductComment ==
    \E id \in PathIds, body \in CommentBodies, down \in BOOLEAN :
        Serve(Request("POST /product/:id/comment", Str(id), body, NoQuery),
              asyncHandler(postProductComment(Params(id), body, down)))

PostProduct ==
    \E body \in ProductBodies, down \in BOOLEAN :
        /\ prodSeq < MaxCreates
        /\ Serve(Request("POST /products", Undefined, body, NoQuery),
                 asyncHandler(postProduct(body, down)))

GetProduct ==
    \E id \in PathIds, down \in BOOLEAN :
        Serve(Request("GET /products/:id", Str(id), NoBody, NoQuery),
              asyncHandler(getProduct(id, down)))

PatchProduct ==
    \E id \in PathIds, body \in ProductPatches, down \in BOOLEAN :
        Serve(Request("PATCH /products/:id", Str(id), body, NoQuery),
              asyncHandler(patchProduct(id, body, down)))

DeleteProduct ==
    \E id \in PathIds, down \in BOOLEAN :
        Serve(Request("DELETE /products/:id", Str(id), NoBody, NoQuery),
              asyncHandler(deleteProduct(id, down)))

\* GET /products reaches its first await: the window is read; a failure ends
\* the request here.
ProductsFindMany(queries) ==
    \E query \in queries, down \in BOOLEAN :
    \E ordered \in Orderings(productsMatching(products, query),
                             productOrderBy(query), "desc") :
        LET o == findManyProducts(query, ordered, down)
            req == Request("GET /products", Undefined, NoBody, query)
        IN  /\ pending = NoPending
            /\ IF o.failure # NoFailure
               THEN /\ Commit(Served(req, asyncHandler(o)), o)
                    /\ UNCHANGED pending
               ELSE /\ Commit(NoneServed, o)
                    /\ pending' = [query |-> query, calls |-> o.calls,
                                   products |-> productsWindow(ordered, query),
                                   readFrom |-> products]

\* GET /products resumes: the count is read and the response sent.
ProductsCount ==
    \E down \in BOOLEAN :
        /\ pending # NoPending
        /\ LET o == asyncHandler(countProducts(pending, down))
           IN  Commit(ServedFrom(Request("GET /products", Undefined, NoBody,
                                         pending.query),
                                 o, pending.readFrom), o)
        /\ pending' = NoPending

\* GET /products of app.js: the handler is registered bare.
AppListProducts ==
    \E query \in AppQueries, down \in BOOLEAN :
        Serve(Request("app.js GET /products", Undefined, NoBody, query),
              appListProducts(query, down))

\* ----------------------------------------------------------- specifications

\* The server has started: the tables are empty and nothing is in flight.
Started ==
    /\ articles = {} /\ comments = {} /\ products = {} /\ productComments = {}
    /\ artSeq = 0 /\ comSeq = 0 /\ prodSeq = 0 /\ now = 0
    /\ pending = NoPending
    /\ gone = {}
    /\ last = NoneServed

\* No route of Next, NextProduct or NextPage reads ownerRequired.
Init == Started /\ ownerRequired = TRUE

\* The article routes, and the product routes that address one id.
Next ==
    \/ PostArticle
    \/ GetArticle
    \/ PatchArticleById
    \/ DeleteArticle
    \/ GetProduct
    \/ PatchProduct
    \/ DeleteProduct

Spec == Init /\ [][Next]_vars

\* The comment and product-comment routes.
NextComment ==
    \/ PostArticleComment
    \/ PatchComment
    \/ DeleteComment
    \/ ListComments
    \/ PostProductComment
    \/ ListProductComments

\* One article and one product were created earlier; the schema is either.
InitComment ==
    /\ articles = {[id |-> ToStr(1), title |-> <<"a">>, content |-> <<"a">>,
                    createdAt |-> 1]}
    /\ products = {[id |-> 1, name |-> <<"a">>, description |-> <<"d">>,
                    price |-> 1, tags |-> <<>>, favoriteCount |-> 0,
                    createdAt |-> 2]}
    /\ comments = {} /\ productComments = {}
    /\ artSeq = 1 /\ comSeq = 0 /\ prodSeq = 1 /\ now = 2
    /\ ownerRequired \in BOOLEAN
    /\ pending = NoPending
    /\ gone = {}
    /\ last = NoneServed

SpecComment == InitComment /\ [][NextComment]_vars

\* The product routes of part_000 and the listing of app.js.
NextProduct ==
    \/ PostProduct
    \/ ProductsFindMany(OrderQueries)
    \/ ProductsCount
    \/ GetProduct
    \/ PatchProduct
    \/ DeleteProduct
    \/ AppListProducts

SpecProduct == Init /\ [][NextProduct]_vars

\* Tables of n articles and n products, created in turn.
InitPage ==
    \E n \in {0, MaxRecords \div 3, MaxRecords - 1, MaxRecords} :
        /\ articles =
               {[id |-> ToStr(i),
                 title |-> IF i % 3 = 0 THEN <<"a">> ELSE <<"a", "b">>,
                 content |-> <<"c">>, createdAt |-> i] : i \in 1..n}
        /\ products =
               {[id |-> i, name |-> IF i % 3 = 0 THEN <<"a">> ELSE <<"a", "b">>,
                 description |-> <<"d">>, price |-> 1, tags |-> <<>>,
                 favoriteCount |-> 0, createdAt |-> n + i] : i \in 1..n}
        /\ comments = {} /\ productComments = {}
        /\ artSeq = n /\ comSeq = 0 /\ prodSeq = n /\ now = 2 * n
        /\ ownerRequired = TRUE
        /\ pending = NoPending
        /\ gone = {}
        /\ last = NoneServed

\* The two page-window listings.
NextPage ==
    \/ ListArticles(PageQueries)
    \/ ProductsFindMany(ProductPageQueries)
    \/ ProductsCount

SpecPage == InitPage /\ [][NextPage]_vars

\* ------------------------------------------------------------------ claims

\* The store was reachable while the step's request was served.
Reachable(served) == served.failure # StoreError

\* The one response of a request that got exactly one.
Response(served) == served.res[1]

\* C1: whenever a wrapped handler throws, the wrapper's response follows from
\* the kind of the failure alone: StructError and PrismaClientValidationError
\* give 400 with the failure's message, a known request error of code P2025
\* gives 404 with no body, anything else gives 500 with the failure's message.
C1_ErrorMapping ==
    last.failure # NoFailure =>
        /\ Len(last.res) >= 1
        /\ LET r == last.res[Len(last.res)]
               f == last.failure
           IN  CASE f.name = "StructError" ->
                        r = [status |-> 400,
                             body |-> [kind |-> "message", message |-> f.message]]
                 [] f.name = "PrismaClientValidationError" ->
                        r = [status |-> 400,
                             body |-> [kind |-> "message", message |-> f.message]]
                 [] f.name = "PrismaClientKnownRequestError" /\ f.code = "P2025" ->
                        r = [status |-> 404, body |-> [kind |-> "none"]]
                 [] OTHER ->
                        r = [status |-> 500,
                             body |-> [kind |-> "message", message |-> f.message]]

C1_Witness ==
    /\ last.req.route = "DELETE /article/:id"
    /\ last.failure.code = "P2025"
    /\ last.res = <<[status |-> 404, body |-> [kind |-> "none"]]>>

C4_Step ==
    LET req == last'.req
        id  == req.id.str
    IN  /\ (req.route = "POST /article" /\ CreateArticle(req.body)
            /\ Reachable(last')) =>
               /\ Len(last'.res) = 1
               /\ Response(last').status = 201
               /\ Response(last').body.kind = "record"
               /\ LET r == Response(last').body.record
                  IN  /\ DOMAIN r = {"id", "title", "content", "createdAt"}
                      /\ r.title = req.body.title
                      /\ r.content = req.body.content
                      /\ r.id \notin Ids(articles) \cup gone
                      /\ articles' = articles \cup {r}
        /\ (req.route = "GET /article/:id" /\ id \in Ids(articles)
            /\ Reachable(last')) =>
               last'.res = <<[status |-> 200,
                              body |-> [kind |-> "record",
                                        record |-> Row(articles, id)]]>>
        /\ (req.route = "DELETE /article/:id" /\ id \in Ids(articles)
            /\ Reachable(last')) =>
               /\ last'.res = <<[status |-> 204, body |-> [kind |-> "none"]]>>
               /\ Ids(articles') = Ids(articles) \ {id}
               /\ id \in gone'
        /\ (req.route = "GET /article/:id" /\ id \in gone
            /\ Reachable(last')) =>
               last'.res = <<[status |-> 404, body |-> [kind |-> "none"]]>>
        /\ gone \subseteq gone'
        /\ gone' \cap Ids(articles') = {}

\* C4: while the store is reachable, POST /article with a body of exactly title
\* and content answers 201 with a new row of those fields, an id no article has
\* or had, and a createdAt; GET /article/:id of a stored id answers 200 with the
\* row; DELETE /article/:id of a stored id answers 204 and removes the row; and
\* from then on GET /article/:id of that id answers 404 with no body, the id
\* never being given to a later article.
C4_ArticleLifecycle == [][C4_Step]_vars

C4_Witness ==
    /\ last.req.route = "GET /article/:id"
    /\ last.req.id.str \in gone
    /\ artSeq = MaxCreates
    /\ articles # {}
    /\ last.res = <<[status |-> 404, body |-> [kind |-> "none"]]>>

\* The claim's reading of a page or pageSize value: the number a decimal
\* numeral names, the default for an absent or non-numeric value.
ClaimedNumber(v, default) ==
    IF v.present /\ \E n \in 1..99 : ToStr(n) = v.str
    THEN CHOOSE n \in 1..99 : ToStr(n) = v.str
    ELSE default

\* The place of row r among `rows` by createdAt, newest first unless `dir` is
\* "asc".
Place(r, rows, dir) ==
    1 + Cardinality({q \in rows : IF dir = "asc" THEN q.createdAt < r.createdAt
                                  ELSE q.createdAt > r.createdAt})

\* `items` is places (p - 1) * s + 1 to p * s of `rows`, as far as they exist.
IsPage(items, rows, dir, p, s, columns) ==
    /\ Len(items) = IF Cardinality(rows) <= (p - 1) * s THEN 0
                    ELSE IF Cardinality(rows) >= p * s THEN s
                    ELSE Cardinality(rows) - (p - 1) * s
    /\ \A i \in 1..Len(items) :
           \E r \in rows : /\ Place(r, rows, dir) = (p - 1) * s + i
                           /\ items[i] = [f \in columns |-> r[f]]

\* The rows one of whose `fields` has k as a substring; every row for no k.
Filtered(rows, fields, k) ==
    IF ~k.present THEN rows
    ELSE {r \in rows : \E f \in fields : Contains(r[f], k.str)}

\* C5: GET /article and GET /products answer 200 with rows (p - 1) * s + 1 to
\* p * s of the rows that match the keyword, in the order asked for, where p is
\* the page (1 when absent or not a number) and s the page size (10 when absent
\* or not a number).
C5_PageWindow ==
    LET q == last.req.query
        p == ClaimedNumber(q.page, 1)
        s == ClaimedNumber(q.pageSize, 10)
    IN  /\ (last.req.route = "GET /article" /\ Reachable(last)) =>
               /\ Len(last.res) = 1
               /\ Response(last).status = 200
               /\ Response(last).body.kind = "list"
               /\ IsPage(Response(last).body.items,
                         Filtered(articles, {"title", "content"}, q.keyword),
                         IF q.order = Str("oldest") THEN "asc" ELSE "desc",
                         p, s, {"id", "title", "content", "createdAt"})
        /\ (last.req.route = "GET /products" /\ Reachable(last)) =>
               /\ Len(last.res) = 1
               /\ Response(last).status = 200
               /\ Response(last).body.kind = "page"
               /\ IsPage(Response(last).body.products,
                         Filtered(last.readFrom, {"name", "description"},
                                  q.keyword),
                         "desc", p, s, ProductListColumns)

C5_Witness ==
    /\ last.req.route = "GET /article"
    /\ last.req.query.page = Str(<<"2">>)
    /\ last.req.query.pageSize = Str(<<"5">>)
    /\ ~last.req.query.keyword.present
    /\ last.req.query.order = Undefined
    /\ Cardinality(articles) = MaxRecords
    /\ Len(last.res) = 1
    /\ Response(last).body.kind = "list"
    /\ Len(Response(last).body.items) = 5
    /\ Response(last).body.items[1].createdAt = MaxRecords - 5
    /\ Response(last).body.items[5].createdAt = MaxRecords - 9

\* A 200 response of GET /products of part_000.
ProductsListed ==
    /\ last.req.route = "GET /products"
    /\ Len(last.res) = 1
    /\ Response(last).status = 200

\* C10 as amended: the totalCount of a 200 response of GET /products is the
\* number of products matching the keyword when the count was read, which is
\* the state the response is sent from, not the one the window was read from.
C10_CountAtCountTime ==
    ProductsListed =>
        Response(last).body.totalCount =
            Cardinality(Filtered(products, {"name", "description"},
                                 last.req.query.keyword))

C10_Witness ==
    /\ ProductsListed
    /\ last.readFrom # products
    /\ Response(last).body.totalCount > Len(Response(last).body.products)
    /\ Response(last).body.totalCount >
           Cardinality(Filtered(last.readFrom, {"name", "description"},
                                last.req.query.keyword))

\* C10: the totalCount of a 200 response of GET /products is the number of
\* products matching the keyword in the state the window was read from, and
\* the window holds no more products than totalCount.
C10_CountOfWindowState ==
    ProductsListed =>
        /\ Response(last).body.totalCount =
               Cardinality(Filtered(last.readFrom, {"name", "description"},
                                    last.req.query.keyword))
        /\ Len(Response(last).body.products) <= Response(last).body.totalCount

\* C2: every request served got exactly one response, and no persistence call
\* was made twice for it.
C2_ExactlyOneResponse ==
    last.req.route # "" =>
        /\ Len(last.res) = 1
        /\ \A i, j \in 1..Len(last.calls) :
               last.calls[i] = last.calls[j] => i = j

\* The three routes of a resource that address one id.
ById(resource) ==
    {"GET /" \o resource \o "/:id", "PATCH /" \o resource \o "/:id",
     "DELETE /" \o resource \o "/:id"}

C3_Step ==
    LET req == last'.req
        absent ==
            \/ req.route \in ById("article") /\ req.id.str \notin Ids(articles)
            \/ req.route \in ById("comment") /\ req.id.str \notin Ids(comments)
            \/ req.route \in ById("products")
               /\ \A r \in products : ToStr(r.id) # req.id.str
    IN  (absent /\ Reachable(last')) =>
            /\ last'.res = <<[status |-> 404, body |-> [kind |-> "none"]]>>
            /\ stores' = stores

\* C3: get-one, update and delete of an article, a comment or a product by an
\* id no row has answer 404 with no body and leave the tables as they were.
C3_AbsentIdIs404 == [][C3_Step]_vars

\* The column is in descending order along the sequence.
Descending(items, column) ==
    \A i, j \in 1..Len(items) : i < j => items[i][column] >= items[j][column]

\* The rows of a 200 response that lists rows.
Listed(served) ==
    IF Response(served).body.kind = "page" THEN Response(served).body.products
    ELSE Response(served).body.items

\* C6: a listing asked for order "recent", for no order or for an order keyword
\* it does not switch on is newest first; the product listing asked for order
\* "favorite" is by favoriteCount descending.
C6_OrderKeyword ==
    LET q == last.req.query
        ok == /\ Len(last.res) = 1
              /\ Response(last).status = 200
    IN  /\ (last.req.route = "GET /article" /\ ok /\ q.order # Str("oldest")) =>
               Descending(Listed(last), "createdAt")
        /\ (last.req.route = "GET /products" /\ ok
            /\ q.order \notin {Str("favorite"), Str("fovorite")}) =>
               Descending(Listed(last), "createdAt")
        /\ (last.req.route = "GET /products" /\ ok
            /\ q.order = Str("favorite")) =>
               Descending(Listed(last), "favoriteCount")

\* The rows of `rows` next after the row of id `cursor`, newest first; from the
\* newest row on for no cursor.
IsNextAfter(items, rows, cursor, n) ==
    LET c == IF cursor.present
             THEN Place(CHOOSE r \in rows : r.id = cursor.str, rows, "desc")
             ELSE 0
    IN  /\ Len(items) = IF Cardinality(rows) - c < n THEN Cardinality(rows) - c
                        ELSE n
        /\ \A i \in 1..Len(items) :
               \E r \in rows : /\ Place(r, rows, "desc") = c + i
                               /\ items[i] = [f \in {"id", "content", "createdAt"}
                                                |-> r[f]]

\* C7: GET /comment and GET /productcomment, for a cursor that is a row's id
\* (or none) and a limit n (5 when absent), answer 200 with the n rows next
\* after the cursor's row, newest first, without that row.
C7_CursorWindow ==
    LET q == last.req.query
        table == IF last.req.route = "GET /comment" THEN comments
                 ELSE productComments
    IN  (/\ last.req.route \in {"GET /comment", "GET /productcomment"}
         /\ Reachable(last)
         /\ q.cursor.present => q.cursor.str \in Ids(table)
         /\ q.limit.present => \E n \in 0..99 : ToStr(n) = q.limit.str) =>
            /\ Len(last.res) = 1
            /\ Response(last).status = 200
            /\ Response(last).body.kind = "list"
            /\ IsNextAfter(Response(last).body.items, table, q.cursor,
                           IF q.limit.present
                           THEN CHOOSE n \in 0..99 : ToStr(n) = q.limit.str
                           ELSE 5)

C8_Step ==
    LET req == last'.req
    IN  /\ (/\ req.route = "POST /article/:id/comment"
            /\ DOMAIN req.body = {"content"}
            /\ req.id.str \in Ids(articles)
            /\ Reachable(last')) =>
               /\ last'.res # <<>>
               /\ Response(last').status = 201
               /\ \E c \in comments' \ comments : c.articleId = req.id
        /\ (/\ req.route = "POST /product/:id/comment"
            /\ DOMAIN req.body = {"content"}
            /\ \E r \in products : ToStr(r.id) = req.id.str
            /\ Reachable(last')) =>
               /\ last'.res # <<>>
               /\ Response(last').status = 201
               /\ \E c \in productComments' \ productComments :
                      ToStr(c.productId) = req.id.str
        /\ \A c \in comments' \ comments :
               c.articleId.present /\ c.articleId.str \in Ids(articles)
        /\ \A c \in productComments' \ productComments :
               c.productId \in Ids(products)

\* C8: POST /article/:id/comment and POST /product/:id/comment with a body of
\* exactly content, for the id of a stored owner, answer 201 and store a new
\* comment whose owner key is the id of the path; every comment stored names
\* an owner that is stored then.
C8_CommentOwner == [][C8_Step]_vars

C9_Step ==
    LET req == last'.req
        patched(table, after, row) ==
            /\ last'.res = <<[status |-> 200,
                              body |-> [kind |-> "record",
                                        record |-> Merge(row, req.body)]]>>
            /\ after = (table \ {row}) \cup {Merge(row, req.body)}
    IN  /\ (/\ req.route = "PATCH /article/:id"
            /\ DOMAIN req.body \subseteq {"title", "content"}
            /\ req.id.str \in Ids(articles)
            /\ Reachable(last')) =>
               /\ patched(articles, articles', Row(articles, req.id.str))
               /\ UNCHANGED <<comments, products, productComments>>
        /\ (/\ req.route = "PATCH /comment/:id"
            /\ DOMAIN req.body \subseteq {"content"}
            /\ req.id.str \in Ids(comments)
            /\ Reachable(last')) =>
               /\ patched(comments, comments', Row(comments, req.id.str))
               /\ UNCHANGED <<articles, products, productComments>>
        /\ (/\ req.route = "PATCH /products/:id"
            /\ DOMAIN req.body \subseteq
                   {"name", "description", "price", "tags", "favoriteCount"}
            /\ \E r \in products : ToStr(r.id) = req.id.str
            /\ Reachable(last')) =>
               /\ patched(products, products',
                          CHOOSE r \in products : ToStr(r.id) = req.id.str)
               /\ UNCHANGED <<articles, comments, productComments>>

\* C9: PATCH of a stored article, comment or product with a body naming some of
\* its fields answers 200 with the row after the change, replaces the named
\* fields of that row alone, and leaves its other fields, its id and createdAt
\* and every other row as they were.
C9_PatchFrame == [][C9_Step]_vars

====
